---- MODULE Spec2Model ----
(***************************************************************************)
(* The frontier queue of the crawler (internal/queue/queue.go): three      *)
(* buffered Go channels with atomic statistics counters, used by pushing   *)
(* producers, popping workers and a closing controller.  Every channel     *)
(* operation and every atomic load/store/add of the source is one step, so *)
(* that goroutines interleave exactly where the Go memory model lets them. *)
(* A call and the first shared access it makes are one step: nothing       *)
(* another goroutine can observe lies between them.                        *)
(***************************************************************************)
EXTENDS Integers, Sequences, FiniteSets, TLC

----------------------------------------------------------------------------
(* Bounds of the model *)

\* capacities of the three channels (2000 / 20000 / 10000 in NewURLQueue);
\* Normal has room for two jobs, so that jobs queue up behind one another
HighCap == 1
NormalCap == 2
LowCap == 1
\* items built in a crawl session (Spec, StatsSpec)
MaxPushes == 2
\* readings of time.Now() the clock tells apart; items built in PushSpec
MaxTime == 5
\* Pop / PopBlocking / PopBatch are called while totalDequeued is below this
MaxPops == 2
\* largest maxItems passed to PopBatch
MaxBatch == 2
\* Record calls made on the Recorder
MaxRecords == 4
\* GetMetrics calls made on the Recorder
MaxGets == 2
\* writes a caller makes into the slice GetMetrics gave it
MaxMods == 1
\* largest pagesCount and queuedCount passed to Record
MaxCount == 1
\* number of Close calls
MaxCloses == 2
\* width of the int64 counters
Int64Bits == 3
\* tryAdmit calls answered per normalized URL before the workers stop calling
MaxAdmits == 2
\* crawler.max_pages of the session
MaxPages == 2
\* successful fetches after which the fetches of the session fail
PagesCap == 4
\* links found on a fetched page
MaxLinks == 2
\* jobs the frontier of the session buffers
FrontierCap == 2
\* the rate limiter's minimum interval between requests to one host, in ticks
MinInterval == 2
\* last reading of the rate limiter's clock
MaxClock == 5
\* longest href, in tokens
MaxHref == 3
\* largest size ceiling of the content saver, in bytes
MaxFileSize == 2
\* Store calls on the archive
MaxStores == 4

----------------------------------------------------------------------------
(* Program constants and values *)

PriorityHigh == 0
PriorityNormal == 1
PriorityLow == 2

Priorities == {PriorityHigh, PriorityNormal, PriorityLow}

Pushers == {"p1", "p2"}
Workers == {"w1", "w2"}
Closers == {"c1"}
Procs == Pushers \cup Workers \cup Closers

\* the names of the three channel fields of URLQueue
Chans == {"highPriority", "normalPriority", "lowPriority"}

\* arguments (url, host, depth) the producers call PushWithPriority with
PushArgs == { [URL |-> "a", Host |-> "x", Depth |-> 1] }

\* URLItem{}: the zero value, also what a receive on a closed, drained
\* channel yields
ZeroItem == [URL |-> "", Priority |-> 0, Host |-> "", Depth |-> 0, QueuedAt |-> 0]

\* an item built without the depth it was given
URLItemNoDepth(url, priority, host, depth, queuedAt) ==
    [URL |-> url, Priority |-> priority, Host |-> host, Depth |-> 0,
     QueuedAt |-> queuedAt]

URLItem(url, priority, host, depth, queuedAt) ==
    [URL |-> url, Priority |-> priority, Host |-> host, Depth |-> depth,
     QueuedAt |-> queuedAt]

Cap(ch) ==
    CASE ch = "highPriority" -> HighCap
      [] ch = "normalPriority" -> NormalCap
      [] ch = "lowPriority" -> LowCap

\* every accepted job counted as a High one
CountOfHigh(ch) == "highCount"

\* the per-priority counter that goes with a channel
CountOf(ch) ==
    CASE ch = "highPriority" -> "highCount"
      [] ch = "normalPriority" -> "normalCount"
      [] ch = "lowPriority" -> "lowCount"

\* atomic.AddInt64 on a two's-complement counter of Int64Bits bits
AddInt64(x, d) ==
    LET s == x + d
        m == 2 ^ Int64Bits
        h == 2 ^ (Int64Bits - 1)
    IN  IF s >= h THEN s - m ELSE IF s < -h THEN s + m ELSE s

\* the largest value of such a counter; the next AddInt64(x, 1) wraps
MaxInt64 == 2 ^ (Int64Bits - 1) - 1

\* the next reading of time.Now(); the clock is not told apart past MaxTime
Tick(t) == IF t <= MaxTime THEN t + 1 ELSE t

----------------------------------------------------------------------------
(* State *)

VARIABLES
    q,            \* the URLQueue struct: channel buffers and int64 fields
    closedChans,  \* the channels close() has been called on
    recvq,        \* workers parked in PopBlocking's blocking select, oldest first
    pc,           \* each goroutine's position
    loc,          \* each goroutine's locals
    now,          \* the clock time.Now() reads
    dropped,      \* pushes that ended in a default branch with nothing sent
    closeCalls,   \* Close calls made
    panicked      \* "no", or the runtime panic that ended the process

queueVars == <<q, closedChans, recvq, pc, loc, now, dropped, closeCalls, panicked>>

\* The Visited Set.
VARIABLES
    visited,      \* the normalized URLs admitted so far
    admit,        \* each worker's tryAdmit call: position, raw url, result
    admitLog      \* per normalized URL: calls answered, answered true, pushes

visitedVars == <<visited, admit, admitLog>>

\* Links as the workers find them: host, port and whether the path ends in a
\* slash after which nothing follows.
RawURLs == [Host : {"A", "a"}, Port : {"", "80", "8080"}, Slash : BOOLEAN]

Lower(host) == IF host = "A" THEN "a" ELSE host

\* URL normalization: lowercase the host, strip the default port, strip the
\* trailing slash
Normalize(u) ==
    [Host |-> Lower(u.Host), Port |-> IF u.Port = "80" THEN "" ELSE u.Port,
     Slash |-> FALSE]

NormalURLs == { Normalize(u) : u \in RawURLs }

NoAdmit == [pc |-> "idle", url |-> Normalize([Host |-> "a", Port |-> "", Slash |-> FALSE]),
            ret |-> FALSE]

VisitedInit ==
    /\ visited = {}
    /\ admit = [w \in Workers |-> NoAdmit]
    /\ admitLog = [u \in NormalURLs |-> [calls |-> 0, trues |-> 0, pushes |-> 0]]

\* The crawl session: the controller, its workers and their frontier queue.
VARIABLES
    ctl,          \* the controller: Running, Closing, Waiting, Stopped, Crashed
    stopReason,   \* the termination condition that fired
    frontier,     \* jobs buffered in the session's URLQueue
    fClosed,      \* its closed field
    fChansClosed, \* whether its channels have been closed
    wk,           \* each worker: position, job in hand, links left to handle
    pages         \* the page counter: successful fetches

sessionVars == <<ctl, stopReason, frontier, fClosed, fChansClosed, wk, pages>>

SessionInit ==
    /\ ctl = "Running"
    /\ stopReason = "none"
    /\ frontier = 1
    /\ fClosed = FALSE
    /\ fChansClosed = FALSE
    /\ wk = [w \in Workers |-> [pc |-> "Idle", job |-> "none", links |-> 0]]
    /\ pages = 0

\* The Rate Limiter.
Hosts == {"x", "y"}

\* the lastRequestAt of a host that has no Host Rate State yet
Never == -1

VARIABLES
    clk,           \* the clock
    lastRequestAt, \* Host Rate State: per host, Never until the first request
    hostLock,      \* per host: the worker inside wait's critical section, or "free"
    lim,           \* each worker's wait call: position, host, end of its sleep
    starts         \* per host: the last two request starts, with their workers

limiterVars == <<clk, lastRequestAt, hostLock, lim, starts>>

LimiterInit ==
    /\ clk = 0
    /\ lastRequestAt = [h \in Hosts |-> Never]
    /\ hostLock = [h \in Hosts |-> "free"]
    /\ lim = [w \in Workers |-> [pc |-> "idle", host |-> "x", wake |-> 0]]
    /\ starts = [h \in Hosts |-> <<>>]

\* package utils: one call of ToAbsoluteURL.
VARIABLES
    base,         \* the page's URL
    href,         \* the link, as read from the page
    absURL,       \* what ToAbsoluteURL returned
    utilPc        \* "start", or "done" once ToAbsoluteURL has returned

utilVars == <<base, href, absURL, utilPc>>

\* An href is a string of these tokens: words of letters, and the characters
\* and groups that url.Parse tells apart.
SchemeWords == {"mailto", "MAILTO", "tel", "javascript", "http", "HTTPS", "ftp"}
Tokens == SchemeWords \cup {":", "//h", "/p", "#", " "}
Hrefs == UNION { [1..n -> Tokens] : n \in 0..MaxHref }

\* base URLs: scheme, host, the directory of the page, fragment
Bases == [Scheme : {"http", "https"}, Host : {<<"//b">>}, Dir : {"/d/"},
          Fragment : {<<>>, <<"f">>}]

\* the url.URL whose String() is ""
NoURL == [Scheme |-> <<>>, Opaque |-> <<>>, Host |-> <<>>, Path |-> <<>>,
          Fragment |-> <<>>]

UtilInit ==
    /\ base = [Scheme |-> "http", Host |-> <<"//b">>, Dir |-> "/d/", Fragment |-> <<>>]
    /\ href = <<>>
    /\ absURL = NoURL
    /\ utilPc = "start"

\* package utils: one call of ContentSaver.SavePageContent.
VARIABLES
    saver,        \* the ContentSaver: enabled, maxFileSize
    saveArgs,     \* the call: len(content), whether pageURL parses, what the
                  \* file system will answer
    files,        \* the files under baseDir
    saveRet,      \* the error SavePageContent returned
    savePc        \* "start", or "done" once SavePageContent has returned

saverVars == <<saver, saveArgs, files, saveRet, savePc>>

\* what os.MkdirAll and os.WriteFile can answer
FsOutcomes == {"ok", "mkdir fails", "open fails", "write fails"}

SaverInit ==
    /\ saver = [enabled |-> FALSE, maxFileSize |-> 0]
    /\ saveArgs = [len |-> 0, urlParses |-> TRUE, fs |-> "ok"]
    /\ files = {}
    /\ saveRet = "nil"
    /\ savePc = "start"

\* package storage: the MongoArchiver's collection.
VARIABLES
    archive,      \* the documents of the collection, in insertion order
    lastStore,    \* per URL: the fields of the latest Store that returned nil
    storeCalls    \* Store calls made

archiveVars == <<archive, lastStore, storeCalls>>

\* pages handed to Store: url, and title standing for the fields $set writes
\* (title, content, links, crawled_at, status_code, content_type)
PageURLs == {"u1", "u2"}
WebPages == [url : PageURLs, title : {"t1", "t2"}]

ArchiveInit ==
    /\ archive = <<>>
    /\ lastStore = [u \in PageURLs |-> "none"]
    /\ storeCalls = 0

\* package benchmark: the Recorder, the arrays behind its slices, its callers.
VARIABLES
    heap,         \* the arrays slices point into, in allocation order
    recorder,     \* the Recorder struct: metrics (a slice), mu, start
    bench,        \* each caller: position, arguments, locals, the slice it got
    benchClock,   \* the clock time.Now() reads in package benchmark
    recordLog,    \* the metrics Record calls have appended, in append order
    benchCalls    \* Record and GetMetrics calls made

benchVars == <<heap, recorder, bench, benchClock, recordLog, benchCalls>>

\* the goroutines that call Record and GetMetrics
Callers == {"b1", "b2"}

\* Metric{Timestamp, PagesCount, QueuedCount}
Metric(timestamp, pagesCount, queuedCount) ==
    [Timestamp |-> timestamp, PagesCount |-> pagesCount, QueuedCount |-> queuedCount]

\* Metric{}
ZeroMetric == Metric(0, 0, 0)

\* what a caller writes into a slice GetMetrics gave it
Scribble == Metric(0, -1, -1)

\* a slice header: array is an index into heap, 0 for a slice of capacity 0
Slice(array, len, cap) == [array |-> array, len |-> len, cap |-> cap]

\* make([]Metric, 0)
EmptySlice == Slice(0, 0, 0)

\* the elements of slice s
Elems(s) == IF s.len = 0 THEN <<>> ELSE SubSeq(heap[s.array], 1, s.len)

\* a caller between two calls
IdleCaller(metrics, mods) ==
    [pc |-> "idle", m |-> ZeroMetric, s |-> EmptySlice, metrics |-> metrics,
     mods |-> mods]

\* New(): metrics: make([]Metric, 0), start: time.Now()
New ==
    [metrics |-> EmptySlice, mu |-> [w |-> "none", r |-> {}], start |-> 0]

BenchInit ==
    /\ heap = <<>>
    /\ recorder = New
    /\ bench = [c \in Callers |-> IdleCaller(EmptySlice, 0)]
    /\ benchClock = 1
    /\ recordLog = <<>>
    /\ benchCalls = [Record |-> 0, GetMetrics |-> 0]

\* the state of everything but the queue
otherVars == <<visitedVars, sessionVars, limiterVars, utilVars, saverVars, archiveVars, benchVars>>

vars == <<queueVars, otherVars>>

OtherInit == VisitedInit /\ SessionInit /\ LimiterInit /\ UtilInit /\ SaverInit /\ ArchiveInit /\ BenchInit

\* NewURLQueue
NewURLQueue ==
    [highPriority |-> <<>>, normalPriority |-> <<>>, lowPriority |-> <<>>,
     size |-> 0, closed |-> 0,
     totalQueued |-> 0, totalDequeued |-> 0,
     highCount |-> 0, normalCount |-> 0, lowCount |-> 0]

NoRet == [item |-> ZeroItem, ok |-> FALSE]

\* A producer's locals: item, and the branch PushWithPriority took ("closed":
\* the early return; a channel: the send case of that channel).
IdlePusher == [item |-> ZeroItem, branch |-> "none"]

\* A worker's locals on entering a method: item; the channel whose receive
\* case it took; ret, what its last Pop / PopBlocking returned; op, the
\* method it runs; items and left (maxItems - i) of PopBatch; released,
\* whether Close woke it from the blocking select.
Fresh(method, maxItems) ==
    [item |-> ZeroItem, branch |-> "none", ret |-> NoRet, op |-> method,
     items |-> <<>>, left |-> maxItems, released |-> FALSE]

QueueInit ==
    /\ q = NewURLQueue
    /\ closedChans = {}
    /\ recvq = <<>>
    /\ pc = [p \in Procs |-> "idle"]
    /\ loc = [p \in Pushers \cup Workers |->
                IF p \in Pushers THEN IdlePusher ELSE Fresh("none", 0)]
    /\ now = 1
    /\ dropped = 0
    /\ closeCalls = 0
    /\ panicked = "no"

Init == QueueInit /\ OtherInit

\* An unrecovered panic in any goroutine ends the process: the queue and every
\* goroutine are gone, and only the panic's message is left.
Panic(message) ==
    /\ panicked' = message
    /\ q' = NewURLQueue
    /\ closedChans' = {}
    /\ recvq' = <<>>
    /\ pc' = [p \in Procs |-> "gone"]
    /\ loc' = [p \in Pushers \cup Workers |->
                IF p \in Pushers THEN IdlePusher ELSE Fresh("none", 0)]
    /\ now' = 1
    /\ dropped' = 0
    /\ closeCalls' = 0
    /\ UNCHANGED otherVars

\* Size()
Size == q.size

\* GetStats()
GetStats ==
    [size |-> q.size, totalQueued |-> q.totalQueued,
     totalDequeued |-> q.totalDequeued, highCount |-> q.highCount,
     normalCount |-> q.normalCount, lowCount |-> q.lowCount,
     highBuffer |-> Len(q.highPriority), normalBuffer |-> Len(q.normalPriority),
     lowBuffer |-> Len(q.lowPriority)]

----------------------------------------------------------------------------
(* PushWithPriority *)

\* a queue that never reads as closed
NeverClosed == FALSE

\* atomic.LoadInt64(&q.closed) == 1
Closed == q.closed = 1

\* The call up to the construction of the item:
\* if atomic.LoadInt64(&q.closed) == 1 { return }; item := URLItem{...}
PushWithPriority(p, a, priority) ==
    /\ panicked = "no"
    /\ pc[p] = "idle"
    /\ IF Closed
       THEN /\ loc' = [loc EXCEPT ![p] = [item |-> ZeroItem, branch |-> "closed"]]
            /\ UNCHANGED <<pc, now>>
       ELSE /\ pc' = [pc EXCEPT ![p] = "push_first"]
            /\ loc' = [loc EXCEPT ![p] =
                         [item |-> URLItem(a.URL, priority, a.Host, a.Depth, now),
                          branch |-> "none"]]
            /\ now' = Tick(now)
    /\ UNCHANGED <<q, closedChans, recvq, dropped, closeCalls, panicked, otherVars>>

\* every priority tried on High first
FirstChanHigh(priority) == "highPriority"

\* the channel a push of this priority tries first (switch priority)
FirstChan(priority) ==
    CASE priority = PriorityHigh -> "highPriority"
      [] priority = PriorityLow -> "lowPriority"
      [] OTHER -> "normalPriority"

\* a High push falling back to Low, past Normal
FallbackChanLow(priority) ==
    IF priority = PriorityLow THEN "none" ELSE "lowPriority"

\* the channel tried in the default branch of the first select; "none": the
\* default branch is empty and the item is dropped
FallbackChan(priority) ==
    CASE priority = PriorityHigh -> "normalPriority"
      [] priority = PriorityLow -> "none"
      [] OTHER -> "lowPriority"

\* q.ch <- item outside a select: no step while the channel is full and no
\* worker waits
BlockingSend(p, ch, fullPc) ==
    /\ ch \notin closedChans
    /\ UNCHANGED <<closedChans, now, dropped, closeCalls, panicked, otherVars>>
    /\ IF recvq # <<>>
       THEN /\ recvq' = Tail(recvq)
            /\ loc' = [loc EXCEPT ![Head(recvq)].item = loc[p].item,
                                  ![Head(recvq)].branch = ch,
                                  ![p].branch = ch]
            /\ pc' = [pc EXCEPT ![Head(recvq)] = "pop_size", ![p] = "push_size"]
            /\ q' = q
       ELSE /\ Len(q[ch]) < Cap(ch)
            /\ q' = [q EXCEPT ![ch] = Append(@, loc[p].item)]
            /\ loc' = [loc EXCEPT ![p].branch = ch]
            /\ pc' = [pc EXCEPT ![p] = "push_size"]
            /\ recvq' = recvq

\* select { case q.ch <- item: ...; default: ... } run by p.  A send on a
\* closed channel panics; a parked receiver is handed the item directly;
\* otherwise the item is buffered if there is room; otherwise default runs:
\* it holds the nested select (fullPc) or nothing, and then the push returns.
TrySend(p, ch, fullPc) ==
    IF ch \in closedChans
    THEN Panic("send on closed channel")
    ELSE /\ UNCHANGED <<closedChans, now, closeCalls, panicked, otherVars>>
         /\ IF recvq # <<>>
            THEN LET w == Head(recvq) IN
                 /\ recvq' = Tail(recvq)
                 /\ loc' = [loc EXCEPT ![w].item = loc[p].item, ![w].branch = ch,
                                       ![p].branch = ch]
                 /\ pc' = [pc EXCEPT ![w] = "pop_size", ![p] = "push_size"]
                 /\ UNCHANGED <<q, dropped>>
            ELSE IF Len(q[ch]) < Cap(ch)
            THEN /\ q' = [q EXCEPT ![ch] = Append(@, loc[p].item)]
                 /\ loc' = [loc EXCEPT ![p].branch = ch]
                 /\ pc' = [pc EXCEPT ![p] = "push_size"]
                 /\ UNCHANGED <<recvq, dropped>>
            ELSE IF fullPc = "idle"
            THEN /\ pc' = [pc EXCEPT ![p] = "idle"]
                 /\ loc' = [loc EXCEPT ![p] = IdlePusher]
                 /\ dropped' = AddInt64(dropped, 1)
                 /\ UNCHANGED <<q, recvq>>
            ELSE /\ pc' = [pc EXCEPT ![p] = fullPc]
                 /\ UNCHANGED <<q, recvq, loc, dropped>>

\* the outer select of the switch
PushFirst(p) ==
    /\ panicked = "no"
    /\ pc[p] = "push_first"
    /\ TrySend(p, FirstChan(loc[p].item.Priority),
               IF FallbackChan(loc[p].item.Priority) = "none" THEN "idle"
               ELSE "push_fallback")

\* the select nested in the default branch
PushFallback(p) ==
    /\ panicked = "no"
    /\ pc[p] = "push_fallback"
    /\ TrySend(p, FallbackChan(loc[p].item.Priority), "idle")

\* the send case without its atomic.AddInt64(&q.size, 1)
PushSkipSize(p) ==
    /\ panicked = "no"
    /\ pc[p] = "push_size"
    /\ pc' = [pc EXCEPT ![p] = "push_total"]
    /\ UNCHANGED <<q, closedChans, recvq, loc, now, dropped, closeCalls, panicked, otherVars>>

\* atomic.AddInt64(&q.size, 1)
PushAddSize(p) ==
    /\ panicked = "no"
    /\ pc[p] = "push_size"
    /\ q' = [q EXCEPT !.size = AddInt64(@, 1)]
    /\ pc' = [pc EXCEPT ![p] = "push_total"]
    /\ UNCHANGED <<closedChans, recvq, loc, now, dropped, closeCalls, panicked, otherVars>>

\* the send case without its atomic.AddInt64(&q.totalQueued, 1)
PushSkipTotal(p) ==
    /\ panicked = "no"
    /\ pc[p] = "push_total"
    /\ pc' = [pc EXCEPT ![p] = "push_count"]
    /\ UNCHANGED <<q, closedChans, recvq, loc, now, dropped, closeCalls, panicked, otherVars>>

\* atomic.AddInt64(&q.totalQueued, 1)
PushAddTotal(p) ==
    /\ panicked = "no"
    /\ pc[p] = "push_total"
    /\ q' = [q EXCEPT !.totalQueued = AddInt64(@, 1)]
    /\ pc' = [pc EXCEPT ![p] = "push_count"]
    /\ UNCHANGED <<closedChans, recvq, loc, now, dropped, closeCalls, panicked, otherVars>>

\* the per-priority counter taken down instead of up
PushSubCount(p) ==
    /\ panicked = "no"
    /\ pc[p] = "push_count"
    /\ q' = [q EXCEPT ![CountOf(loc[p].branch)] = AddInt64(@, -1)]
    /\ pc' = [pc EXCEPT ![p] = "idle"]
    /\ loc' = [loc EXCEPT ![p] = IdlePusher]
    /\ UNCHANGED <<closedChans, recvq, now, dropped, closeCalls, panicked, otherVars>>

\* atomic.AddInt64(&q.highCount / normalCount / lowCount, 1), and return
PushAddCount(p) ==
    /\ panicked = "no"
    /\ pc[p] = "push_count"
    /\ q' = [q EXCEPT ![CountOf(loc[p].branch)] = AddInt64(@, 1)]
    /\ pc' = [pc EXCEPT ![p] = "idle"]
    /\ loc' = [loc EXCEPT ![p] = IdlePusher]
    /\ UNCHANGED <<closedChans, recvq, now, dropped, closeCalls, panicked, otherVars>>

----------------------------------------------------------------------------
(* Pop, PopBlocking, PopBatch *)

\* What a step of a worker with locals l makes of the queue, of its position
\* and of its locals.
Outcome(qq, position, l) == [q |-> qq, pc |-> position, l |-> l]

\* return item, ok from Pop / PopBlocking.  Inside PopBatch the loop body
\* goes on: if !ok { break }; items = append(items, item); i++ and, when the
\* loop ends, return items.  A worker that returns keeps ret and items, the
\* results, and forgets its other locals.
Return(qq, l, it, ok) ==
    LET appended == IF l.op = "PopBatch" /\ ok THEN Append(l.items, it) ELSE l.items
        again == l.op = "PopBatch" /\ ok /\ l.left > 1
    IN  IF again
        THEN Outcome(qq, "pop_high",
                     [l EXCEPT !.item = ZeroItem, !.branch = "none",
                               !.ret = [item |-> it, ok |-> ok],
                               !.items = appended, !.left = @ - 1])
        ELSE Outcome(qq, "idle",
                     [item |-> ZeroItem, branch |-> "none",
                      ret |-> [item |-> it, ok |-> ok], op |-> "none",
                      items |-> appended, left |-> 0, released |-> FALSE])

\* a receive that takes the job sent last
TryRecvLast(l, ch, emptyPc) ==
    IF Len(q[ch]) > 0
    THEN Outcome([q EXCEPT ![ch] = SubSeq(@, 1, Len(@) - 1)], "pop_size",
                 [l EXCEPT !.item = q[ch][Len(q[ch])], !.branch = ch])
    ELSE IF ch \in closedChans
    THEN Outcome(q, "pop_size", [l EXCEPT !.item = ZeroItem, !.branch = ch])
    ELSE IF emptyPc = "return"
    THEN Return(q, l, ZeroItem, FALSE)
    ELSE Outcome(q, emptyPc, l)

\* select { case item := <-q.ch: ...; default: ... }.  A buffered item is
\* received first; a closed, drained channel yields the zero value and the
\* case is taken all the same (the code does not read the second result of
\* the receive); otherwise default runs: the worker goes on at emptyPc, or
\* ("return") returns URLItem{}, false.
TryRecv(l, ch, emptyPc) ==
    IF Len(q[ch]) > 0
    THEN Outcome([q EXCEPT ![ch] = Tail(@)], "pop_size",
                 [l EXCEPT !.item = Head(q[ch]), !.branch = ch])
    ELSE IF ch \in closedChans
    THEN Outcome(q, "pop_size", [l EXCEPT !.item = ZeroItem, !.branch = ch])
    ELSE IF emptyPc = "return"
    THEN Return(q, l, ZeroItem, FALSE)
    ELSE Outcome(q, emptyPc, l)

\* worker w takes a step with that outcome
Step(w, o) ==
    /\ q' = o.q
    /\ pc' = [pc EXCEPT ![w] = o.pc]
    /\ loc' = [loc EXCEPT ![w] = o.l]
    /\ UNCHANGED <<closedChans, recvq, now, dropped, closeCalls, panicked, otherVars>>

\* Pop starting with the select on q.normalPriority
PopFirstNormal(l) == TryRecv(l, "normalPriority", "pop_normal")

\* Pop: select { case item := <-q.highPriority: ...; default: }
PopFirst(l) == TryRecv(l, "highPriority", "pop_normal")

\* Pop: select { case item := <-q.normalPriority: ...; default: ... }
PopSecond(l) == TryRecv(l, "normalPriority", "pop_low")

\* Pop: the select nested in that default branch, on q.lowPriority; when it
\* too runs default, return URLItem{}, false
PopThird(l) == TryRecv(l, "lowPriority", "return")

\* a worker calls Pop(), which starts with the select on q.highPriority
Pop(w) ==
    /\ panicked = "no"
    /\ pc[w] = "idle"
    /\ Step(w, PopFirst(Fresh("Pop", 0)))

\* the next Pop() of PopBatch's loop
PopHigh(w) ==
    /\ panicked = "no"
    /\ pc[w] = "pop_high"
    /\ Step(w, PopFirst(loc[w]))

PopNormal(w) ==
    /\ panicked = "no"
    /\ pc[w] = "pop_normal"
    /\ Step(w, PopSecond(loc[w]))

PopLow(w) ==
    /\ panicked = "no"
    /\ pc[w] = "pop_low"
    /\ Step(w, PopThird(loc[w]))

\* the receive case without its atomic.AddInt64(&q.size, -1)
PopSkipSize(w) ==
    /\ panicked = "no"
    /\ pc[w] = "pop_size"
    /\ Step(w, Outcome(q, "pop_total", loc[w]))

\* the body of a receive case: atomic.AddInt64(&q.size, -1)
PopAddSize(w) ==
    /\ panicked = "no"
    /\ pc[w] = "pop_size"
    /\ Step(w, Outcome([q EXCEPT !.size = AddInt64(@, -1)], "pop_total", loc[w]))

\* atomic.AddInt64(&q.totalDequeued, 1); return item, true
PopAddTotal(w) ==
    /\ panicked = "no"
    /\ pc[w] = "pop_total"
    /\ Step(w, Return([q EXCEPT !.totalDequeued = AddInt64(@, 1)], loc[w],
                      loc[w].item, TRUE))

\* PopBlocking without its test of q.closed
PopBlockingNoCheck(l) == Outcome(q, "pb_high", l)

\* PopBlocking: if atomic.LoadInt64(&q.closed) == 1 { return URLItem{}, false }
PopBlockingCheck(l) ==
    IF Closed THEN Return(q, l, ZeroItem, FALSE) ELSE Outcome(q, "pb_high", l)

\* a worker calls PopBlocking(), which starts with the load of q.closed
PopBlocking(w) ==
    /\ panicked = "no"
    /\ pc[w] = "idle"
    /\ Step(w, PopBlockingCheck(Fresh("PopBlocking", 0)))

\* PopBlocking: select { case item := <-q.highPriority: ...; default: ... }
PopBlockingHigh(w) ==
    /\ panicked = "no"
    /\ pc[w] = "pb_high"
    /\ Step(w, TryRecv(loc[w], "highPriority", "pb_select"))

\* the channels a receive would not block on; Go takes any one of the ready
\* cases of a select
Ready == {ch \in Chans : Len(q[ch]) > 0 \/ ch \in closedChans}

\* PopBlocking: the select without default over the three channels.  With no
\* case ready the goroutine parks on all three channels.
PopBlockingSelect(w) ==
    /\ panicked = "no"
    /\ pc[w] = "pb_select"
    /\ IF Ready # {}
       THEN \E ch \in Ready : Step(w, TryRecv(loc[w], ch, "pb_select"))
       ELSE /\ recvq' = Append(recvq, w)
            /\ pc' = [pc EXCEPT ![w] = "parked"]
            /\ UNCHANGED <<q, closedChans, loc, now, dropped, closeCalls, panicked, otherVars>>

\* a worker calls PopBatch(maxItems): items := make(...); the loop calls
\* Pop() while i < maxItems; return items
PopBatch(w, maxItems) ==
    /\ panicked = "no"
    /\ pc[w] = "idle"
    /\ IF maxItems > 0
       THEN Step(w, PopFirst(Fresh("PopBatch", maxItems)))
       ELSE Step(w, Outcome(q, "idle", Fresh("none", 0)))

----------------------------------------------------------------------------
(* Close *)

\* the call and its first statement: atomic.StoreInt64(&q.closed, 1)
Close(c) ==
    /\ panicked = "no"
    /\ pc[c] = "idle"
    /\ q' = [q EXCEPT !.closed = 1]
    /\ pc' = [pc EXCEPT ![c] = "close_high"]
    /\ closeCalls' = closeCalls + 1
    /\ UNCHANGED <<closedChans, recvq, loc, now, dropped, panicked, otherVars>>

\* close(ch).  Closing a closed channel panics.  Every goroutine parked on
\* the channel is woken, its receive case taken with the zero value.
CloseChan(c, ch, nextPc) ==
    IF ch \in closedChans
    THEN Panic("close of closed channel")
    ELSE LET woken == {recvq[i] : i \in 1..Len(recvq)} IN
         /\ closedChans' = closedChans \cup {ch}
         /\ recvq' = <<>>
         /\ loc' = [p \in DOMAIN loc |->
                      IF p \in woken
                      THEN [loc[p] EXCEPT !.item = ZeroItem, !.branch = ch,
                                          !.released = TRUE]
                      ELSE loc[p]]
         /\ pc' = [p \in Procs |-> IF p \in woken THEN "pop_size"
                                   ELSE IF p = c THEN nextPc ELSE pc[p]]
         /\ UNCHANGED <<q, now, dropped, closeCalls, panicked, otherVars>>

\* close(q.highPriority)
CloseHigh(c) ==
    /\ panicked = "no"
    /\ pc[c] = "close_high"
    /\ CloseChan(c, "highPriority", "close_normal")

\* close(q.normalPriority)
CloseNormal(c) ==
    /\ panicked = "no"
    /\ pc[c] = "close_normal"
    /\ CloseChan(c, "normalPriority", "close_low")

\* close(q.lowPriority), and return
CloseLow(c) ==
    /\ panicked = "no"
    /\ pc[c] = "close_low"
    /\ CloseChan(c, "lowPriority", "idle")

----------------------------------------------------------------------------
(* Specifications *)

\* the steps inside PushWithPriority
PushSteps(p) ==
    \/ PushFirst(p)
    \/ PushFallback(p)
    \/ PushAddSize(p)
    \/ PushAddTotal(p)
    \/ PushAddCount(p)

\* the steps inside Pop once High was found empty, and the receive-case
\* bodies, which PopBlocking has too
PopSteps(w) ==
    \/ PopNormal(w)
    \/ PopLow(w)
    \/ PopAddSize(w)
    \/ PopAddTotal(w)

\* the steps inside PopBlocking up to its receive
PopBlockingSteps(w) ==
    \/ PopBlockingHigh(w)
    \/ PopBlockingSelect(w)

\* the steps inside Close after its first statement
CloseSteps(c) ==
    \/ CloseHigh(c)
    \/ CloseNormal(c)
    \/ CloseLow(c)

\* The crawl session: one producer, two workers that call Pop or
\* PopBlocking, and the controller, which closes the queue.
Next ==
    \/ \E a \in PushArgs, priority \in Priorities :
          now <= MaxPushes /\ PushWithPriority("p1", a, priority)
    \/ PushSteps("p1")
    \/ \E w \in Workers : q.totalDequeued < MaxPops /\ Pop(w)
    \/ \E w \in Workers : q.totalDequeued < MaxPops /\ PopBlocking(w)
    \/ \E w \in Workers : PopSteps(w)
    \/ \E w \in Workers : PopBlockingSteps(w)
    \/ \E c \in Closers : closeCalls < MaxCloses /\ Close(c)
    \/ \E c \in Closers : CloseSteps(c)

Spec == Init /\ [][Next]_vars

\* Producers alone, with the controller: no worker takes a job out, so the
\* sub-queues fill up.  MaxTime bounds the items built.
PushNext ==
    \/ \E p \in Pushers, a \in PushArgs, priority \in Priorities :
          now <= MaxTime /\ PushWithPriority(p, a, priority)
    \/ \E p \in Pushers : PushSteps(p)
    \/ \E c \in Closers : closeCalls < MaxCloses /\ Close(c)
    \/ \E c \in Closers : CloseSteps(c)

PushSpec == Init /\ [][PushNext]_vars

\* An open queue: one producer and two workers, which call Pop, PopBlocking
\* or PopBatch; nobody closes the queue.
StatsNext ==
    \/ \E a \in PushArgs, priority \in Priorities :
          now <= MaxPushes /\ PushWithPriority("p1", a, priority)
    \/ PushSteps("p1")
    \/ \E w \in Workers : q.totalDequeued < MaxPops /\ Pop(w)
    \/ \E w \in Workers : q.totalDequeued < MaxPops /\ PopBlocking(w)
    \/ \E w \in Workers, maxItems \in 0..MaxBatch :
          q.totalDequeued < MaxPops /\ PopBatch(w, maxItems)
    \/ \E w \in Workers : PopHigh(w) \/ PopSteps(w)
    \/ \E w \in Workers : PopBlockingSteps(w)

StatsSpec == Init /\ [][StatsNext]_vars

\* A producer that never stops pushing Normal and Low jobs and a worker that
\* never stops calling Pop; the Go scheduler lets every runnable goroutine
\* run again.
StarveNext ==
    \/ \E a \in PushArgs, priority \in {PriorityNormal, PriorityLow} :
          PushWithPriority("p1", a, priority)
    \/ PushSteps("p1")
    \/ Pop("w1")
    \/ PopSteps("w1")

\* Long into the session: the clock readings are no longer told apart.
StarveInit ==
    /\ q = NewURLQueue
    /\ closedChans = {}
    /\ recvq = <<>>
    /\ pc = [p \in Procs |-> "idle"]
    /\ loc = [p \in Pushers \cup Workers |->
                IF p \in Pushers THEN IdlePusher ELSE Fresh("none", 0)]
    /\ now = MaxTime + 1
    /\ dropped = 0
    /\ closeCalls = 0
    /\ panicked = "no"
    /\ OtherInit

StarveSpec ==
    /\ StarveInit
    /\ [][StarveNext]_vars
    /\ WF_vars(Pop("w1") \/ PopSteps("w1"))
    /\ WF_vars(PushSteps("p1"))

\* One producer and two workers again, the producer passing a different url,
\* host and depth with each priority, so that a job tells what its push was
\* given.
JobArgs(priority) ==
    CASE priority = PriorityHigh -> [URL |-> "h", Host |-> "x", Depth |-> 1]
      [] priority = PriorityNormal -> [URL |-> "n", Host |-> "y", Depth |-> 2]
      [] priority = PriorityLow -> [URL |-> "l", Host |-> "z", Depth |-> 3]

JobNext ==
    \/ \E priority \in Priorities :
          now <= MaxPushes /\ PushWithPriority("p1", JobArgs(priority), priority)
    \/ PushSteps("p1")
    \/ \E w \in Workers : q.totalDequeued < MaxPops /\ Pop(w)
    \/ \E w \in Workers : q.totalDequeued < MaxPops /\ PopBlocking(w)
    \/ \E w \in Workers, maxItems \in 0..MaxBatch :
          q.totalDequeued < MaxPops /\ PopBatch(w, maxItems)
    \/ \E w \in Workers : PopHigh(w) \/ PopSteps(w)
    \/ \E w \in Workers : PopBlockingSteps(w)

JobSpec == Init /\ [][JobNext]_vars

\* every goroutine but p is between two calls, or parked in PopBlocking
Alone(p) == \A r \in Procs \ {p} : pc[r] \in {"idle", "parked"}

\* One call at a time: a producer, workers and the controller, each starting
\* a call only while no other call runs.  (Close still wakes the workers
\* parked in PopBlocking, which then finish their calls.)
SeqNext ==
    \/ \E a \in PushArgs, priority \in Priorities :
          now <= MaxTime /\ Alone("p1") /\ PushWithPriority("p1", a, priority)
    \/ PushSteps("p1")
    \/ \E w \in Workers : q.totalDequeued < MaxPops /\ Alone(w) /\ Pop(w)
    \/ \E w \in Workers : q.totalDequeued < MaxPops /\ Alone(w) /\ PopBlocking(w)
    \/ \E w \in Workers, maxItems \in 0..MaxBatch :
          q.totalDequeued < MaxPops /\ Alone(w) /\ PopBatch(w, maxItems)
    \/ \E w \in Workers : PopHigh(w) \/ PopSteps(w)
    \/ \E w \in Workers : PopBlockingSteps(w)
    \/ \E c \in Closers : closeCalls < MaxCloses /\ Alone(c) /\ Close(c)
    \/ \E c \in Closers : CloseSteps(c)

SeqSpec == Init /\ [][SeqNext]_vars

----------------------------------------------------------------------------
(* Visited Set *)

\* the set without the new entry
AdmitNoInsert(set, u) == set

\* insert if absent
AdmitInsert(set, u) == set \cup {u}

\* worker w finds a link, normalizes it and calls tryAdmit
TryAdmitCall(w, raw) ==
    /\ admit[w].pc = "idle"
    /\ admitLog[Normalize(raw)].calls < MaxAdmits
    /\ admit' = [admit EXCEPT ![w] = [pc |-> "called", url |-> Normalize(raw),
                                      ret |-> FALSE]]
    /\ UNCHANGED <<queueVars, sessionVars, limiterVars, utilVars, saverVars, archiveVars, benchVars, visited, admitLog>>

\* tryAdmit(url): the membership check and the insertion, in one atomic step;
\* true only to the caller that inserted
TryAdmit(w) ==
    LET u == admit[w].url
        ret == u \notin visited
    IN  /\ admit[w].pc = "called"
        /\ visited' = AdmitInsert(visited, u)
        /\ admit' = [admit EXCEPT ![w].pc = "answered", ![w].ret = ret]
        /\ admitLog' = [admitLog EXCEPT ![u].calls = @ + 1,
                                        ![u].trues = @ + (IF ret THEN 1 ELSE 0)]
        /\ UNCHANGED <<queueVars, sessionVars, limiterVars, utilVars, saverVars, archiveVars, benchVars>>

\* the link is pushed to the Frontier Queue if and only if tryAdmit returned
\* true
PushLink(w) ==
    /\ admit[w].pc = "answered"
    /\ admit' = [admit EXCEPT ![w].pc = "idle"]
    /\ admitLog' = [admitLog EXCEPT ![admit[w].url].pushes =
                                       @ + (IF admit[w].ret THEN 1 ELSE 0)]
    /\ UNCHANGED <<queueVars, sessionVars, limiterVars, utilVars, saverVars, archiveVars, benchVars, visited>>

VisitedNext ==
    \/ \E w \in Workers, raw \in RawURLs : TryAdmitCall(w, raw)
    \/ \E w \in Workers : TryAdmit(w)
    \/ \E w \in Workers : PushLink(w)

VisitedSpec == Init /\ [][VisitedNext]_vars

----------------------------------------------------------------------------
(* Crawl session *)

\* what a session step leaves alone
SessionFrame == UNCHANGED <<queueVars, visitedVars, limiterVars, utilVars, saverVars, archiveVars, benchVars>>

\* a runtime panic in a worker ends the process
Crash ==
    /\ ctl' = "Crashed"
    /\ wk' = [w \in Workers |-> [pc |-> "Crashed", job |-> "none", links |-> 0]]
    /\ UNCHANGED <<stopReason, frontier, fClosed, fChansClosed, pages>>

\* worker w calls PopBlocking: closed is loaded first, and the worker goes
\* to Stopped when told there is no job
WPopBlocking(w) ==
    /\ wk[w].pc = "Idle"
    /\ wk' = [wk EXCEPT ![w].pc = IF fClosed THEN "Stopped" ELSE "Select"]
    /\ UNCHANGED <<ctl, stopReason, frontier, fClosed, fChansClosed, pages>>
    /\ SessionFrame

\* PopBlocking's selects: a buffered job is received; a closed channel yields
\* URLItem{} with ok = true; otherwise the worker parks
WSelect(w) ==
    /\ wk[w].pc = "Select"
    /\ IF frontier > 0
       THEN /\ frontier' = frontier - 1
            /\ wk' = [wk EXCEPT ![w].pc = "Fetching", ![w].job = "job"]
       ELSE /\ frontier' = frontier
            /\ wk' = [wk EXCEPT ![w] =
                        IF fChansClosed
                        THEN [pc |-> "Fetching", job |-> "zero", links |-> 0]
                        ELSE [pc |-> "Parked", job |-> "none", links |-> 0]]
    /\ UNCHANGED <<ctl, stopReason, fClosed, fChansClosed, pages>>
    /\ SessionFrame

\* the fetch ends: a success is counted and the page's links are handled
\* next; a failure (the only outcome for the empty URLItem{}) ends the job
WFetch(w, ok) ==
    /\ wk[w].pc = "Fetching"
    /\ IF ok /\ wk[w].job = "job" /\ pages < PagesCap
       THEN /\ pages' = pages + 1
            /\ wk' = [wk EXCEPT ![w].pc = "Processing", ![w].links = MaxLinks]
       ELSE /\ pages' = pages
            /\ wk' = [wk EXCEPT ![w] = [pc |-> "Idle", job |-> "none", links |-> 0]]
    /\ UNCHANGED <<ctl, stopReason, frontier, fClosed, fChansClosed>>
    /\ SessionFrame

\* the next link of the page: skipped when the page counter has reached
\* max_pages; otherwise PushWithPriority is called, which loads closed first
\* and returns false when it is set
WLink(w) ==
    /\ wk[w].pc = "Processing"
    /\ wk' = [wk EXCEPT ![w] =
                IF wk[w].links = 0
                THEN [pc |-> "Idle", job |-> "none", links |-> 0]
                ELSE IF pages >= MaxPages \/ fClosed
                THEN [@ EXCEPT !.links = @ - 1]
                ELSE [@ EXCEPT !.pc = "Pushing"]]
    /\ UNCHANGED <<ctl, stopReason, frontier, fClosed, fChansClosed, pages>>
    /\ SessionFrame

\* PushWithPriority's select: a send on a closed channel panics; a parked
\* worker is handed the job; or the job is buffered; or dropped
WSend(w) ==
    /\ wk[w].pc = "Pushing"
    /\ IF fChansClosed
       THEN Crash
       ELSE /\ \/ /\ \E v \in Workers : wk[v].pc = "Parked"
                  /\ \E v \in Workers :
                        /\ wk[v].pc = "Parked"
                        /\ wk' = [wk EXCEPT ![v].pc = "Fetching", ![v].job = "job",
                                            ![w].pc = "Processing", ![w].links = @ - 1]
                  /\ frontier' = frontier
               \/ /\ \A v \in Workers : wk[v].pc # "Parked"
                  /\ wk' = [wk EXCEPT ![w].pc = "Processing", ![w].links = @ - 1]
                  /\ frontier' = IF frontier < FrontierCap THEN frontier + 1
                                 ELSE frontier
            /\ UNCHANGED <<ctl, stopReason, fClosed, fChansClosed, pages>>
    /\ SessionFrame

\* a worker is mid-fetch
InFlight(w) == wk[w].pc \in {"Fetching", "Processing", "Pushing"}

\* the controller's termination check
StopCondition(reason) ==
    CASE reason = "max_pages" -> MaxPages > 0 /\ pages >= MaxPages
      [] reason = "exhausted" -> frontier = 0 /\ \A w \in Workers : ~InFlight(w)
      [] reason = "shutdown" -> TRUE

\* on stop the controller calls Close(): atomic.StoreInt64(&q.closed, 1)
CStop(reason) ==
    /\ ctl = "Running"
    /\ StopCondition(reason)
    /\ ctl' = "Closing"
    /\ stopReason' = reason
    /\ fClosed' = TRUE
    /\ UNCHANGED <<frontier, fChansClosed, wk, pages>>
    /\ SessionFrame

\* Close(): the channels are closed; every parked worker's receive case is
\* taken with URLItem{}
CCloseChans ==
    /\ ctl = "Closing"
    /\ ctl' = "Waiting"
    /\ fChansClosed' = TRUE
    /\ wk' = [w \in Workers |->
                IF wk[w].pc = "Parked"
                THEN [pc |-> "Fetching", job |-> "zero", links |-> 0]
                ELSE wk[w]]
    /\ UNCHANGED <<stopReason, frontier, fClosed, pages>>
    /\ SessionFrame

\* the controller waits for all workers to reach Stopped, and returns
CWait ==
    /\ ctl = "Waiting"
    /\ \A w \in Workers : wk[w].pc = "Stopped"
    /\ ctl' = "Stopped"
    /\ UNCHANGED <<stopReason, frontier, fClosed, fChansClosed, wk, pages>>
    /\ SessionFrame

WorkerSteps(w) ==
    \/ WPopBlocking(w)
    \/ WSelect(w)
    \/ \E ok \in BOOLEAN : WFetch(w, ok)
    \/ WLink(w)
    \/ WSend(w)

SessionNext ==
    \/ \E w \in Workers : WPopBlocking(w)
    \/ \E w \in Workers : WSelect(w)
    \/ \E w \in Workers, ok \in BOOLEAN : WFetch(w, ok)
    \/ \E w \in Workers : WLink(w)
    \/ \E w \in Workers : WSend(w)
    \/ \E reason \in {"max_pages", "exhausted", "shutdown"} : CStop(reason)
    \/ CCloseChans
    \/ CWait

\* every worker keeps running, and the controller, once it has decided to
\* stop, completes Close() and its wait
SessionSpec ==
    /\ Init
    /\ [][SessionNext]_vars
    /\ \A w \in Workers : WF_vars(WorkerSteps(w))
    /\ WF_vars(CCloseChans \/ CWait)

----------------------------------------------------------------------------
(* Rate Limiter *)

LimiterFrame == UNCHANGED <<queueVars, visitedVars, sessionVars, utilVars, saverVars, archiveVars, benchVars>>

\* a critical section anyone may enter at any time
HostAlwaysFree(h) == TRUE

\* nobody is inside the critical section of host h
HostFree(h) == hostLock[h] = "free"

\* max(0, lastRequestAt + minInterval - now); a host met for the first time
\* has no wait
Delay(h) ==
    IF lastRequestAt[h] = Never THEN 0
    ELSE IF lastRequestAt[h] + MinInterval > clk
    THEN lastRequestAt[h] + MinInterval - clk
    ELSE 0

\* the request of worker w to host h starts now: lastRequestAt is recorded
Stamp(w, h) ==
    /\ lastRequestAt' = [lastRequestAt EXCEPT ![h] = clk]
    /\ starts' = [starts EXCEPT ![h] =
                    IF @ = <<>> THEN <<[t |-> clk, w |-> w]>>
                    ELSE <<@[Len(@)], [t |-> clk, w |-> w]>>]

\* wait(host): enter the host's critical section and compute the delay;
\* with no delay, record and leave at once; otherwise sleep inside it
Wait(w, h) ==
    /\ lim[w].pc = "idle"
    /\ HostFree(h)
    /\ IF Delay(h) = 0
       THEN /\ Stamp(w, h)
            /\ lim' = [lim EXCEPT ![w] = [pc |-> "idle", host |-> h, wake |-> clk]]
            /\ UNCHANGED hostLock
       ELSE /\ lim' = [lim EXCEPT ![w] = [pc |-> "sleeping", host |-> h,
                                          wake |-> clk + Delay(h)]]
            /\ hostLock' = [hostLock EXCEPT ![h] = w]
            /\ UNCHANGED <<lastRequestAt, starts>>
    /\ UNCHANGED clk
    /\ LimiterFrame

\* the sleep is over: record the new lastRequestAt and leave the critical
\* section
WaitWake(w) ==
    /\ lim[w].pc = "sleeping"
    /\ clk >= lim[w].wake
    /\ Stamp(w, lim[w].host)
    /\ lim' = [lim EXCEPT ![w].pc = "idle"]
    /\ hostLock' = [hostLock EXCEPT ![lim[w].host] = "free"]
    /\ UNCHANGED clk
    /\ LimiterFrame

ClockTick ==
    /\ clk < MaxClock
    /\ clk' = clk + 1
    /\ UNCHANGED <<lastRequestAt, hostLock, lim, starts>>
    /\ LimiterFrame

LimiterNext ==
    \/ \E w \in Workers, h \in Hosts : Wait(w, h)
    \/ \E w \in Workers : WaitWake(w)
    \/ ClockTick

LimiterSpec == Init /\ [][LimiterNext]_vars

----------------------------------------------------------------------------
(* package utils: ToAbsoluteURL *)

\* strings.ToLower on a word
ToLower(word) ==
    CASE word = "MAILTO" -> "mailto"
      [] word = "HTTPS" -> "https"
      [] OTHER -> word

\* strings.Index(s, tok), counted from 1; 0 when tok is not in s
Index(s, tok) ==
    IF \E i \in 1..Len(s) : s[i] = tok
    THEN CHOOSE i \in 1..Len(s) : s[i] = tok /\ \A j \in 1..(i - 1) : s[j] # tok
    ELSE 0

\* if i := strings.Index(href, "#"); i > -1 { href = href[:i] }
StripFragment(h) ==
    IF Index(h, "#") > 0 THEN SubSeq(h, 1, Index(h, "#") - 1) ELSE h

\* strings.HasPrefix(h, word + ":")
HasPrefix(h, word) == Len(h) >= 2 /\ h[1] = word /\ h[2] = ":"

\* no href is skipped for its scheme
SkippedNone(h) == FALSE

\* // Skip certain schemes
Skipped(h) ==
    HasPrefix(h, "mailto") \/ HasPrefix(h, "tel") \/ HasPrefix(h, "javascript")

SlashTokens == {"//h", "/p"}

Slash(tok) == tok \in SlashTokens

\* the tokens of s before its first token that is in stops
Before(s, stops) ==
    IF \E i \in 1..Len(s) : s[i] \in stops
    THEN SubSeq(s, 1, (CHOOSE i \in 1..Len(s) :
                          s[i] \in stops /\ \A j \in 1..(i - 1) : s[j] \notin stops) - 1)
    ELSE s

NotLetters == Tokens \ SchemeWords

ParseError == [err |-> TRUE, Scheme |-> <<>>, Opaque |-> <<>>, Host |-> <<>>,
               Path |-> <<>>]

\* net/url getScheme: the letters before the first ':' are the scheme; a
\* leading ':' is an error; any other character first means no scheme
GetScheme(s) ==
    LET k == Len(Before(s, NotLetters)) IN
    IF k < Len(s) /\ s[k + 1] = ":"
    THEN IF k = 0 THEN [err |-> TRUE, scheme |-> <<>>, rest |-> <<>>]
         ELSE [err |-> FALSE, scheme |-> [i \in 1..k |-> ToLower(s[i])],
               rest |-> SubSeq(s, k + 2, Len(s))]
    ELSE [err |-> FALSE, scheme |-> <<>>, rest |-> s]

\* net/url parseHost: no space in a host, and after the last ':' only a port
ValidAuthority(a) ==
    /\ \A i \in 1..Len(a) : a[i] # " "
    /\ (\E i \in 1..Len(a) : a[i] = ":") => a[Len(a)] = ":"

\* url.Parse(h)
Parse(h) ==
    LET g == GetScheme(h)
        rest == g.rest
    IN  IF g.err THEN ParseError
        ELSE IF rest = <<>> \/ ~Slash(rest[1])
        THEN IF g.scheme # <<>>
             THEN [err |-> FALSE, Scheme |-> g.scheme, Opaque |-> rest,
                   Host |-> <<>>, Path |-> <<>>]
             ELSE IF \E i \in 1..Len(Before(rest, SlashTokens)) : rest[i] = ":"
             THEN ParseError
             ELSE [err |-> FALSE, Scheme |-> <<>>, Opaque |-> <<>>,
                   Host |-> <<>>, Path |-> rest]
        ELSE IF rest[1] = "//h"
        THEN LET authority == Before(Tail(rest), SlashTokens) IN
             IF ValidAuthority(authority)
             THEN [err |-> FALSE, Scheme |-> g.scheme, Opaque |-> <<>>,
                   Host |-> <<"//h">> \o authority,
                   Path |-> SubSeq(rest, Len(authority) + 2, Len(rest))]
             ELSE ParseError
        ELSE [err |-> FALSE, Scheme |-> g.scheme, Opaque |-> <<>>,
              Host |-> <<>>, Path |-> rest]

\* base.ResolveReference(ref)
ResolveReference(b, ref) ==
    IF ref.Scheme # <<>>
    THEN [Scheme |-> ref.Scheme, Opaque |-> ref.Opaque, Host |-> ref.Host,
          Path |-> ref.Path, Fragment |-> <<>>]
    ELSE IF ref.Host # <<>>
    THEN [Scheme |-> <<b.Scheme>>, Opaque |-> <<>>, Host |-> ref.Host,
          Path |-> ref.Path, Fragment |-> <<>>]
    ELSE IF ref.Path = <<>>
    THEN [Scheme |-> <<b.Scheme>>, Opaque |-> <<>>, Host |-> b.Host,
          Path |-> <<b.Dir>>, Fragment |-> b.Fragment]
    ELSE [Scheme |-> <<b.Scheme>>, Opaque |-> <<>>, Host |-> b.Host,
          Path |-> IF Slash(ref.Path[1]) THEN ref.Path ELSE <<b.Dir>> \o ref.Path,
          Fragment |-> <<>>]

ToAbsoluteURL(b, h) ==
    IF h = <<>> THEN NoURL
    ELSE IF Skipped(StripFragment(h)) THEN NoURL
    ELSE IF Parse(StripFragment(h)).err THEN NoURL
    ELSE ResolveReference(b, Parse(StripFragment(h)))

\* a page's URL and one of its links
URLInit ==
    /\ QueueInit
    /\ VisitedInit /\ SessionInit /\ LimiterInit /\ SaverInit /\ ArchiveInit /\ BenchInit
    /\ base \in Bases
    /\ href \in Hrefs
    /\ absURL = NoURL
    /\ utilPc = "start"

\* the call
CallToAbsoluteURL ==
    /\ utilPc = "start"
    /\ absURL' = ToAbsoluteURL(base, href)
    /\ utilPc' = "done"
    /\ UNCHANGED <<base, href, queueVars, visitedVars, sessionVars, limiterVars, saverVars, archiveVars, benchVars>>

URLNext == CallToAbsoluteURL

URLSpec == URLInit /\ [][URLNext]_vars

----------------------------------------------------------------------------
(* package utils: ContentSaver *)

\* a ceiling that content of exactly that size exceeds
TooLargeOrEqual(maxFileSize, len) == maxFileSize > 0 /\ len >= maxFileSize

\* cs.maxFileSize > 0 && int64(len(content)) > cs.maxFileSize
TooLarge(maxFileSize, len) == maxFileSize > 0 /\ len > maxFileSize

\* the file SavePageContent writes: metadata + "\n\n" + content; whole says
\* whether os.WriteFile got all of it out
PageFile(len, whole) == [path |-> "domainDir/filename.html", content |-> len,
                         whole |-> whole]

\* SavePageContent: the files and the error it leaves
SavePageContent(cs, args) ==
    IF ~cs.enabled THEN [files |-> {}, err |-> "nil"]
    ELSE IF TooLarge(cs.maxFileSize, args.len) THEN [files |-> {}, err |-> "nil"]
    ELSE IF ~args.urlParses THEN [files |-> {}, err |-> "url.Parse"]
    ELSE IF args.fs = "mkdir fails" THEN [files |-> {}, err |-> "os.MkdirAll"]
    ELSE IF args.fs = "open fails" THEN [files |-> {}, err |-> "os.WriteFile"]
    ELSE IF args.fs = "write fails"
    THEN [files |-> {PageFile(args.len, FALSE)}, err |-> "os.WriteFile"]
    ELSE [files |-> {PageFile(args.len, TRUE)}, err |-> "nil"]

\* a content saver as NewContentSaver makes it, and one page
SaveInit ==
    /\ QueueInit
    /\ VisitedInit /\ SessionInit /\ LimiterInit /\ UtilInit /\ ArchiveInit /\ BenchInit
    /\ saver \in [enabled : BOOLEAN, maxFileSize : -1..MaxFileSize]
    /\ saveArgs \in [len : 0..(MaxFileSize + 1), urlParses : BOOLEAN, fs : FsOutcomes]
    /\ files = {}
    /\ saveRet = "nil"
    /\ savePc = "start"

\* the call
CallSavePageContent ==
    /\ savePc = "start"
    /\ files' = files \cup SavePageContent(saver, saveArgs).files
    /\ saveRet' = SavePageContent(saver, saveArgs).err
    /\ savePc' = "done"
    /\ UNCHANGED <<saver, saveArgs, queueVars, visitedVars, sessionVars, limiterVars, utilVars, archiveVars, benchVars>>

SaveNext == CallSavePageContent

SaveSpec == SaveInit /\ [][SaveNext]_vars

----------------------------------------------------------------------------
(* package storage: MongoArchiver.Store *)

ArchiveFrame ==
    UNCHANGED <<queueVars, visitedVars, sessionVars, limiterVars, utilVars, saverVars, benchVars>>

\* the documents of the collection that match bson.M{"url": url}
Matching(url) == { i \in 1..Len(archive) : archive[i].url = url }

\* collection.InsertOne(ctx, page): one more document
InsertOne(page) == Append(archive, page)

\* collection.UpdateOne(ctx, filter, update, SetUpsert(true)): $set on the
\* first matching document, or a new document when none matches
UpdateOne(page) ==
    IF Matching(page.url) = {}
    THEN Append(archive, page)
    ELSE [archive EXCEPT ![CHOOSE i \in Matching(page.url) :
                              \A j \in Matching(page.url) : i <= j] = page]

\* a Store call that ends with the collection as given; when the driver
\* reports an error the collection is as before and Store returns the error
Stored(page, ok, collection) ==
    /\ storeCalls < MaxStores
    /\ storeCalls' = storeCalls + 1
    /\ archive' = IF ok THEN collection ELSE archive
    /\ lastStore' = IF ok THEN [lastStore EXCEPT ![page.url] = page.title]
                    ELSE lastStore
    /\ ArchiveFrame

\* Store of internal/storage/archiver.go
StoreInsertOne(page, ok) == Stored(page, ok, InsertOne(page))

\* Store of the archiver that creates the unique index on url
StoreUpsert(page, ok) == Stored(page, ok, UpdateOne(page))

ArchiveNext == \E page \in WebPages, ok \in BOOLEAN : StoreInsertOne(page, ok)

ArchiveSpec == Init /\ [][ArchiveNext]_vars

UpsertNext == \E page \in WebPages, ok \in BOOLEAN : StoreUpsert(page, ok)

UpsertSpec == Init /\ [][UpsertNext]_vars

----------------------------------------------------------------------------
(* package benchmark: Recorder.Record, Recorder.GetMetrics *)

BenchFrame ==
    UNCHANGED <<queueVars, visitedVars, sessionVars, limiterVars, utilVars,
                saverVars, archiveVars>>

\* a mutex that lets every writer in
CanLockAlways == TRUE

\* r.mu.Lock() returns: no writer and no reader holds the RWMutex
CanLock == recorder.mu.w = "none" /\ recorder.mu.r = {}

\* r.mu.RLock() returns: no writer holds the RWMutex
CanRLock == recorder.mu.w = "none"

\* the capacity append gives the new array of a slice that is full
Grow(cap) == IF cap = 0 THEN 1 ELSE 2 * cap

\* Record(pagesCount, queuedCount): r.mu.Lock()
RecordLock(c, pagesCount, queuedCount) ==
    /\ bench[c].pc = "idle"
    /\ benchCalls.Record < MaxRecords
    /\ CanLock
    /\ recorder' = [recorder EXCEPT !.mu.w = c]
    /\ bench' = [bench EXCEPT ![c].pc = "rec_load",
                              ![c].m = Metric(0, pagesCount, queuedCount)]
    /\ benchCalls' = [benchCalls EXCEPT !.Record = @ + 1]
    /\ UNCHANGED <<heap, benchClock, recordLog>>
    /\ BenchFrame

\* the operands of append(r.metrics, Metric{Timestamp: time.Now(), ...}):
\* the slice header is read and the metric is built
RecordLoad(c) ==
    /\ bench[c].pc = "rec_load"
    /\ bench' = [bench EXCEPT ![c].pc = "rec_append",
                              ![c].s = recorder.metrics,
                              ![c].m.Timestamp = benchClock]
    /\ benchClock' = benchClock + 1
    /\ UNCHANGED <<heap, recorder, recordLog, benchCalls>>
    /\ BenchFrame

\* r.metrics = append(...): the metric goes into the array behind the slice
\* read, or, that slice being full, into a new and larger array that starts
\* as a copy of it; the resulting header is stored in r.metrics
RecordAppend(c) ==
    /\ bench[c].pc = "rec_append"
    /\ LET s == bench[c].s
           m == bench[c].m
       IN  IF s.len < s.cap
           THEN /\ heap' = [heap EXCEPT ![s.array][s.len + 1] = m]
                /\ recorder' = [recorder EXCEPT
                                  !.metrics = Slice(s.array, s.len + 1, s.cap)]
           ELSE /\ heap' = Append(heap,
                                  Elems(s) \o <<m>> \o
                                  [i \in 1..(Grow(s.cap) - s.len - 1) |-> ZeroMetric])
                /\ recorder' = [recorder EXCEPT
                                  !.metrics = Slice(Len(heap) + 1, s.len + 1,
                                                    Grow(s.cap))]
    /\ recordLog' = Append(recordLog, bench[c].m)
    /\ bench' = [bench EXCEPT ![c].pc = "rec_unlock"]
    /\ UNCHANGED <<benchClock, benchCalls>>
    /\ BenchFrame

\* defer r.mu.Unlock(), and return
RecordUnlock(c) ==
    /\ bench[c].pc = "rec_unlock"
    /\ recorder' = [recorder EXCEPT !.mu.w = "none"]
    /\ bench' = [bench EXCEPT ![c] = IdleCaller(bench[c].metrics, bench[c].mods)]
    /\ UNCHANGED <<heap, benchClock, recordLog, benchCalls>>
    /\ BenchFrame

\* GetMetrics(): r.mu.RLock()
GetMetricsRLock(c) ==
    /\ bench[c].pc = "idle"
    /\ benchCalls.GetMetrics < MaxGets
    /\ CanRLock
    /\ recorder' = [recorder EXCEPT !.mu.r = @ \cup {c}]
    /\ bench' = [bench EXCEPT ![c].pc = "get_copy"]
    /\ benchCalls' = [benchCalls EXCEPT !.GetMetrics = @ + 1]
    /\ UNCHANGED <<heap, benchClock, recordLog>>
    /\ BenchFrame

\* GetMetrics handing out r.metrics itself
GetMetricsAlias(c) ==
    /\ bench[c].pc = "get_copy"
    /\ bench' = [bench EXCEPT ![c].pc = "get_unlock",
                              ![c].metrics = recorder.metrics]
    /\ UNCHANGED <<heap, recorder, benchClock, recordLog, benchCalls>>
    /\ BenchFrame

\* metrics := make([]Metric, len(r.metrics)); copy(metrics, r.metrics)
GetMetricsCopy(c) ==
    /\ bench[c].pc = "get_copy"
    /\ LET n == recorder.metrics.len
       IN  IF n = 0
           THEN /\ bench' = [bench EXCEPT ![c].pc = "get_unlock",
                                          ![c].metrics = EmptySlice]
                /\ heap' = heap
           ELSE /\ bench' = [bench EXCEPT ![c].pc = "get_unlock",
                                          ![c].metrics = Slice(Len(heap) + 1, n, n)]
                /\ heap' = Append(heap, Elems(recorder.metrics))
    /\ UNCHANGED <<recorder, benchClock, recordLog, benchCalls>>
    /\ BenchFrame

\* defer r.mu.RUnlock(), and return metrics
GetMetricsRUnlock(c) ==
    /\ bench[c].pc = "get_unlock"
    /\ recorder' = [recorder EXCEPT !.mu.r = @ \ {c}]
    /\ bench' = [bench EXCEPT ![c].pc = "idle"]
    /\ UNCHANGED <<heap, benchClock, recordLog, benchCalls>>
    /\ BenchFrame

\* the caller writes into the slice it got: metrics[i] = ...
Modify(c, i) ==
    /\ bench[c].pc = "idle"
    /\ bench[c].mods < MaxMods
    /\ i \in 1..bench[c].metrics.len
    /\ heap' = [heap EXCEPT ![bench[c].metrics.array][i] = Scribble]
    /\ bench' = [bench EXCEPT ![c].mods = @ + 1]
    /\ UNCHANGED <<recorder, benchClock, recordLog, benchCalls>>
    /\ BenchFrame

\* Goroutines that record, read the metrics and write into what they read.
BenchNext ==
    \/ \E c \in Callers, pagesCount, queuedCount \in 0..MaxCount :
          RecordLock(c, pagesCount, queuedCount)
    \/ \E c \in Callers : RecordLoad(c)
    \/ \E c \in Callers : RecordAppend(c)
    \/ \E c \in Callers : RecordUnlock(c)
    \/ \E c \in Callers : GetMetricsRLock(c)
    \/ \E c \in Callers : GetMetricsCopy(c)
    \/ \E c \in Callers : GetMetricsRUnlock(c)
    \/ \E c \in Callers, i \in 1..MaxRecords : Modify(c, i)

BenchSpec == Init /\ [][BenchNext]_vars

----------------------------------------------------------------------------
(* Properties *)

\* no call is in progress
AllIdle == panicked = "no" /\ \A p \in Procs : pc[p] = "idle"

\* len(q.ch) == cap(q.ch): a send on ch finds no room
Full(ch) == Len(q[ch]) = Cap(ch)

\* all three sub-queues are full
Saturated == \A ch \in Chans : Full(ch)

\* the positions inside PushWithPriority, in program order
PushPcs == {"push_first", "push_fallback", "push_size", "push_total", "push_count"}

Rank(position) ==
    CASE position = "push_first" -> 1
      [] position = "push_fallback" -> 2
      [] position = "push_size" -> 3
      [] position = "push_total" -> 4
      [] position = "push_count" -> 5
      [] OTHER -> 6

\* C1: when Close() is called while workers are blocked in PopBlocking() on
\* an empty queue, every such worker is released with ok = false: a worker
\* that Close woke from the blocking select never returns ok = true.
C1_ReleasedWithNoJob ==
    [][\A w \in Workers :
          (loc[w].released /\ pc[w] # "idle" /\ pc'[w] = "idle")
             => ~loc'[w].ret.ok]_vars

\* C2: whenever High holds a job at the moment Pop() runs, Pop() takes the
\* job at the head of High, leaves Normal and Low alone, and returns that job
\* with ok = true.
C2_PopTakesHighFirst ==
    \A w \in Workers :
       /\ (panicked = "no" /\ pc[w] = "idle" /\ Len(q.highPriority) > 0) =>
             /\ ENABLED Pop(w)
             /\ ~ENABLED (/\ Pop(w)
                          /\ ~(/\ pc'[w] = "pop_size"
                               /\ loc'[w].item = Head(q.highPriority)
                               /\ q' = [q EXCEPT !.highPriority = Tail(@)]))
       /\ (loc[w].op = "Pop" /\ pc[w] \in {"pop_size", "pop_total"}) =>
             ~ENABLED (/\ PopSteps(w)
                       /\ \/ loc'[w].op = "Pop" /\ loc'[w].item # loc[w].item
                          \/ /\ pc'[w] = "idle"
                             /\ loc'[w].ret # [item |-> loc[w].item, ok |-> TRUE])

\* a Pop() holds the job it took from High while Normal holds a job too
C2_Witness ==
    \E w \in Workers :
       /\ loc[w].op = "Pop"
       /\ pc[w] = "pop_size"
       /\ loc[w].branch = "highPriority"
       /\ loc[w].item # ZeroItem
       /\ Len(q.normalPriority) > 0

\* C3: PopBlocking() enforces strict priority under concurrent pushes: it
\* never takes a job from Normal or Low at a moment when High holds a job.
C3_PopBlockingStrictPriority ==
    [][\A w \in Workers :
          (/\ pc[w] \in {"pb_high", "pb_select"}
           /\ pc'[w] = "pop_size"
           /\ loc'[w].branch \in {"normalPriority", "lowPriority"}
           /\ loc'[w].item # ZeroItem)
             => Len(q.highPriority) = 0]_vars

\* a worker is in a receive case of Pop on that channel
Taken(ch) ==
    \E w \in Workers : pc[w] = "pop_size" /\ loc[w].op = "Pop" /\ loc[w].branch = ch

\* C4: with High empty, Pop() starves neither Normal nor Low: a job waiting
\* in Low is eventually taken by some Pop() call, and so is a job waiting in
\* Normal, while the producer keeps pushing and the worker keeps calling
\* Pop().
C4_NoStarvation ==
    /\ (Len(q.highPriority) = 0 /\ Len(q.lowPriority) > 0) ~> Taken("lowPriority")
    /\ (Len(q.highPriority) = 0 /\ Len(q.normalPriority) > 0)
          ~> Taken("normalPriority")

\* C5: after any finite sequence of PushWithPriority, Pop, PopBlocking and
\* PopBatch calls in which no push was dropped, once all calls have
\* completed, Size() equals totalQueued - totalDequeued.
C5_SizeWhenIdle ==
    (AllIdle /\ dropped = 0) => Size = q.totalQueued - q.totalDequeued

\* all calls completed, none dropped, two jobs accepted and one taken out
C5_Witness ==
    /\ AllIdle
    /\ dropped = 0
    /\ q.totalQueued = 2
    /\ q.totalDequeued = 1
    /\ Size = 1

\* C6, as stated: with pushes dropped because the sub-queues are full, size
\* after any sequence of operations equals
\* totalQueued - totalDequeued - droppedCount.
C6_SizeMinusDropped ==
    AllIdle => Size = q.totalQueued - q.totalDequeued - dropped

\* C6, amended: a dropped push changes no counter.  At every moment size
\* equals totalQueued - totalDequeued, corrected by the calls that are between
\* their update of size and their update of their total; so it equals
\* totalQueued - totalDequeued whenever no call is in progress, whatever the
\* number of pushes dropped.
C6_SizeIgnoresDropped ==
    panicked = "no" =>
       Size = q.totalQueued - q.totalDequeued
              + Cardinality({p \in Pushers : pc[p] = "push_total"})
              - Cardinality({w \in Workers : pc[w] = "pop_total"})

\* no call in progress, a push was dropped and a job was taken out
C6_Witness ==
    /\ AllIdle
    /\ dropped > 0
    /\ q.totalDequeued > 0
    /\ Size = q.totalQueued - q.totalDequeued

\* C7: PushWithPriority never blocks its caller: in every reachable state a
\* push in progress can take its next step without any pop, every step moves
\* it forward in the program, so that it ends within five steps of its own,
\* and with all three sub-queues full its selects leave the queue as it is
\* and the job is dropped.
C7_PushNeverBlocks ==
    \A p \in Pushers :
       pc[p] \in PushPcs =>
          /\ ENABLED PushSteps(p)
          /\ ~ENABLED (PushSteps(p) /\ Rank(pc'[p]) <= Rank(pc[p]))
          /\ (Saturated /\ closedChans = {} /\ pc[p] \in {"push_first", "push_fallback"})
                => ~ENABLED (/\ PushSteps(p)
                             /\ ~(/\ q' = q
                                  /\ \/ pc'[p] = "push_fallback" /\ dropped' = dropped
                                     \/ /\ pc'[p] = "idle"
                                        /\ dropped' = AddInt64(dropped, 1)))

\* all three sub-queues of an open queue are full and a High push, which
\* found High full, is about to try Normal
C7_Witness ==
    /\ Saturated
    /\ q.closed = 0
    /\ \E p \in Pushers : pc[p] = "push_fallback"

\* A step of producer p on its select follows the chain first, second: the
\* job goes to the channel tried if it has room; otherwise nothing changes
\* and the push goes on to second or, from second, returns with the job
\* dropped.
FollowsChain(p, first, second) ==
    LET ch == IF pc[p] = "push_first" THEN first ELSE second IN
    IF ~Full(ch)
    THEN /\ pc'[p] = "push_size"
         /\ loc'[p].branch = ch
         /\ q' = [q EXCEPT ![ch] = Append(@, loc[p].item)]
         /\ dropped' = dropped
    ELSE /\ q' = q
         /\ IF pc[p] = "push_first"
            THEN pc'[p] = "push_fallback" /\ dropped' = dropped
            ELSE pc'[p] = "idle" /\ dropped' = AddInt64(dropped, 1)

\* producer p takes a step of a select of its push of that priority, and
\* the step does not panic
SelectStep(p, priority) ==
    /\ pc[p] \in {"push_first", "push_fallback"}
    /\ loc[p].item.Priority = priority
    /\ pc'[p] # pc[p]
    /\ panicked' = "no"

\* C8, as stated: a High push follows High, Normal, Low and is dropped only
\* when all three sub-queues are full.
C8_HighDroppedOnlyWhenSaturated ==
    [][\A p \in Pushers :
          (SelectStep(p, PriorityHigh) /\ pc'[p] = "idle") => Saturated]_vars

\* C8, amended: a High push goes to High when it has room, otherwise to
\* Normal when it has room, and is dropped when High and Normal are full; it
\* is never placed in Low.
C8_HighFallsBackToNormal ==
    [][\A p \in Pushers :
          SelectStep(p, PriorityHigh) =>
             /\ FollowsChain(p, "highPriority", "normalPriority")
             /\ q'.lowPriority = q.lowPriority]_vars

\* a push was dropped with High and Normal full and Low empty: no Low or
\* Normal push is dropped while Low has room
C8_Witness ==
    /\ panicked = "no"
    /\ dropped = 1
    /\ Full("highPriority")
    /\ Full("normalPriority")
    /\ Len(q.lowPriority) = 0

\* C9: a Normal push is placed in Normal when it has room, otherwise in Low
\* when Low has room, and is dropped only when both are full; it is never
\* placed in High.
C9_NormalFallsBackToLow ==
    [][\A p \in Pushers :
          SelectStep(p, PriorityNormal) =>
             /\ FollowsChain(p, "normalPriority", "lowPriority")
             /\ q'.highPriority = q.highPriority]_vars

\* a Normal job sits in Low
C9_Witness ==
    /\ panicked = "no"
    /\ \E i \in 1..Len(q.lowPriority) : q.lowPriority[i].Priority = PriorityNormal

\* Close() has returned: its last statement closed q.lowPriority
CloseCompleted == closedChans = Chans

\* C10: once Close() has completed, a PushWithPriority call that starts
\* leaves the three sub-queues, size, totalQueued and the per-priority counts
\* unchanged, and returns at once.
C10_ClosedRejectsPush ==
    CloseCompleted =>
       \A p \in Pushers, a \in PushArgs, priority \in Priorities :
          /\ pc[p] = "idle" => ENABLED PushWithPriority(p, a, priority)
          /\ ~ENABLED (/\ PushWithPriority(p, a, priority)
                       /\ ~(q' = q /\ pc'[p] = "idle" /\ dropped' = dropped))

\* Close() has completed, a push took the early return, and the sub-queues
\* are not all full
C10_Witness ==
    /\ CloseCompleted
    /\ ~Saturated
    /\ \E p \in Pushers : pc[p] = "idle" /\ loc[p].branch = "closed"

\* the jobs a PopBatch with locals l at that position has taken, followed by
\* the jobs the sub-queues qq hold, in the order successive Pop() calls
\* return them
Drain(l, position, qq) ==
    l.items
    \o (IF position \in {"pop_size", "pop_total"} THEN <<l.item>> ELSE <<>>)
    \o qq.highPriority \o qq.normalPriority \o qq.lowPriority

\* the same for worker w before a step: a worker between two calls has taken
\* nothing yet
DrainBefore(w) ==
    IF pc[w] = "idle" THEN Drain(Fresh("PopBatch", 0), "idle", q)
    ELSE Drain(loc[w], pc[w], q)

\* C11: PopBatch(n) never blocks and returns at most n jobs; with no other
\* operation running it returns exactly min(n, number of jobs held), each a
\* job a sub-queue held when the call started, in the order successive
\* Pop() calls return them: every step of the call moves a job from the
\* front of the sub-queues (High, then Normal, then Low) to the batch or
\* changes neither, and the call returns n jobs or leaves the sub-queues
\* empty.
C11_PopBatchDrains ==
    [][\A w \in Workers :
          /\ (loc[w].op = "PopBatch" /\ pc[w] \notin {"idle", "gone"}) =>
                ENABLED (PopHigh(w) \/ PopSteps(w))
          /\ (/\ panicked' = "no"
              /\ loc[w].op = "PopBatch" \/ loc'[w].op = "PopBatch"
              /\ <<pc'[w], loc'[w]>> # <<pc[w], loc[w]>>) =>
                /\ Drain(loc'[w], pc'[w], q') = DrainBefore(w)
                /\ (pc[w] # "idle" /\ pc'[w] = "idle") =>
                      LET n == Len(loc[w].items) + loc[w].left IN
                      /\ Len(loc'[w].items) <= n
                      /\ \/ Len(loc'[w].items) = n
                         \/ \A ch \in Chans : Len(q'[ch]) = 0]_vars

\* C12: after Close() has completed, every PopBlocking() call returns
\* URLItem{}, false at once, also when jobs are still buffered, and leaves
\* those jobs where they are.
C12_ClosedPopBlockingNoJob ==
    CloseCompleted =>
       \A w \in Workers :
          /\ pc[w] = "idle" => ENABLED PopBlocking(w)
          /\ ~ENABLED (/\ PopBlocking(w)
                       /\ ~(pc'[w] = "idle" /\ loc'[w].ret = NoRet /\ q' = q))

\* Close() has completed, a job is still buffered and a worker is about to
\* call PopBlocking()
C12_Witness ==
    /\ CloseCompleted
    /\ \E ch \in Chans : Len(q[ch]) > 0
    /\ \E w \in Workers : pc[w] = "idle"

\* the counters the code only ever adds 1 to
Cumulative == {"totalQueued", "totalDequeued", "highCount", "normalCount", "lowCount"}

\* C13: totalQueued, totalDequeued, highCount, normalCount and lowCount never
\* go down in a step of PushWithPriority, Pop, PopBlocking, PopBatch or Close,
\* short of the wrap of an int64 at its largest value (a panic ends the
\* process and the queue with it).
C13_CountersNeverGoDown ==
    [][panicked' = "no" =>
          \A c \in Cumulative : q[c] < MaxInt64 => q'[c] >= q[c]]_vars

\* jobs were pushed and popped, size went back down to 0 and the queue was
\* closed, with the cumulative counters still up
C13_Witness ==
    /\ CloseCompleted
    /\ q.totalQueued > 0
    /\ q.totalDequeued > 0
    /\ q.highCount + q.normalCount + q.lowCount > 0
    /\ q.size = 0

Range(seq) == { seq[i] : i \in 1..Len(seq) }

\* the jobs a worker has been handed by Pop, PopBlocking or PopBatch
Returned(w) ==
    (IF loc[w].ret.ok THEN {loc[w].ret.item} ELSE {}) \cup Range(loc[w].items)

\* the jobs in a sub-queue or in a worker's receive case
Queued ==
    UNION { Range(q[ch]) : ch \in Chans }
    \cup { loc[w].item : w \in { v \in Workers : pc[v] \in {"pop_size", "pop_total"} } }

\* C14: a job in a sub-queue, and the job Pop, PopBlocking or PopBatch
\* returns, has the URL, priority, host and depth that its PushWithPriority
\* call was given, also when it went through the fallback sub-queue.
C14_JobAsPushed ==
    \A it \in Queued \cup UNION { Returned(w) : w \in Workers } :
       /\ it.Priority \in Priorities
       /\ [URL |-> it.URL, Host |-> it.Host, Depth |-> it.Depth] = JobArgs(it.Priority)

\* two high priority jobs were pushed, the second one through the normal
\* sub-queue, and PopBatch(2) has returned them both
C14_Witness ==
    \E w \in Workers :
       /\ pc[w] = "idle"
       /\ Len(loc[w].items) = 2
       /\ \A i \in 1..2 : loc[w].items[i].Priority = PriorityHigh
       /\ q.highCount = 1
       /\ q.normalCount = 1

\* C15: of the tryAdmit calls made with one normalized URL, however they
\* overlap, exactly one returns true, and the URL is pushed to the Frontier
\* Queue at most once.
C15_AdmittedOnce ==
    \A u \in NormalURLs :
       /\ admitLog[u].trues <= 1
       /\ admitLog[u].calls > 0 => admitLog[u].trues = 1
       /\ admitLog[u].pushes <= admitLog[u].trues

\* two workers' overlapping tryAdmit calls with variants of one URL have both
\* been answered, one with true and one with false
C15_Witness ==
    /\ \A w \in Workers : admit[w].pc = "answered"
    /\ admit["w1"].url = admit["w2"].url
    /\ admit["w1"].ret # admit["w2"].ret

AllStopped == \A w \in Workers : wk[w].pc = "Stopped"

\* C16: once the controller stops the session (queue exhausted with no fetch
\* in flight, external shutdown, or max_pages reached) the queue is closed
\* and every worker eventually reaches Stopped; and a session stopped for
\* max_pages = N has made exactly N successful fetches.
C16_StopReachesStopped ==
    /\ (ctl # "Running") ~> (fChansClosed /\ AllStopped)
    /\ [](AllStopped /\ stopReason = "max_pages" => pages = MaxPages)

HTTPSchemes == {<<"http">>, <<"https">>}

\* C18 as claimed: for an http or https base and any href, ToAbsoluteURL
\* returns "" or an absolute URL whose scheme is http or https.
C18_OnlyHTTPSchemes ==
    utilPc = "done" => absURL = NoURL \/ absURL.Scheme \in HTTPSchemes

\* C18 as the code has it: an href that starts with mailto:, tel: or
\* javascript:, written so, gives ""; any other result is an absolute URL
\* with the scheme of the base or, when the href begins with letters and a
\* colon, those letters in lower case, whatever scheme they spell.
C18_SkipsThreePrefixes ==
    utilPc = "done" =>
       /\ (/\ Len(href) >= 2
           /\ href[1] \in {"mailto", "tel", "javascript"}
           /\ href[2] = ":") => absURL = NoURL
       /\ absURL # NoURL =>
             \/ absURL.Scheme = <<base.Scheme>>
             \/ \E k \in 1..(Len(href) - 1) :
                   /\ href[k + 1] = ":"
                   /\ \A i \in 1..k : href[i] \in SchemeWords
                   /\ absURL.Scheme = [i \in 1..k |-> ToLower(href[i])]

\* a mailto link spelled in capitals, with a fragment, came back as a
\* mailto URL
C18_Witness ==
    /\ utilPc = "done"
    /\ href = <<"MAILTO", ":", "#">>
    /\ absURL.Scheme = <<"mailto">>

\* C19: SavePageContent writes no file and returns no error when the saver
\* is disabled or when the ceiling is positive and the content is longer
\* than it; an enabled saver given content no longer than the ceiling, or
\* any content with ceiling 0, writes the page's file, and when nothing
\* fails (url.Parse, os.MkdirAll, os.WriteFile) the file holds it all.
C19_SkipsOverCeiling ==
    savePc = "done" =>
       LET over == saver.maxFileSize > 0 /\ saveArgs.len > saver.maxFileSize
           within == saveArgs.len <= saver.maxFileSize \/ saver.maxFileSize = 0
       IN  /\ (~saver.enabled \/ over) => files = {} /\ saveRet = "nil"
           /\ (saver.enabled /\ within) =>
                 IF saveRet = "nil"
                 THEN files = {PageFile(saveArgs.len, TRUE)}
                 ELSE ~saveArgs.urlParses \/ saveArgs.fs # "ok"

\* content exactly as long as the ceiling was written, and content one byte
\* longer would not have been
C19_Witness ==
    /\ savePc = "done"
    /\ saver.enabled
    /\ saver.maxFileSize > 0
    /\ saveArgs.len = saver.maxFileSize
    /\ files = {PageFile(saveArgs.len, TRUE)}

\* C20: after any sequence of Store calls the archive holds at most one
\* record per URL, and it carries the fields of the most recent Store of
\* that URL; storing the same page twice leaves one record.
C20_OneRecordPerURL ==
    \A u \in PageURLs :
       /\ Cardinality(Matching(u)) <= 1
       /\ lastStore[u] # "none" =>
             \E i \in Matching(u) : archive[i].title = lastStore[u]

\* C21: whatever Pop, PopBlocking or PopBatch hands to a worker as a job is
\* an item that a PushWithPriority built and sent, never URLItem{}, and no
\* item is handed out twice or handed out while still queued; after Close()
\* too.
C21_ReturnedWerePushed ==
    \A w \in Workers :
       /\ \A it \in Returned(w) : it # ZeroItem /\ it.QueuedAt \in 1..now
       /\ \A i, j \in 1..Len(loc[w].items) :
             i # j => loc[w].items[i] # loc[w].items[j]
       /\ Returned(w) \cap Queued = {}
       /\ \A v \in Workers \ {w} : Returned(w) \cap Returned(v) = {}

\* C22: a PushWithPriority that runs while Close() runs never faults: it
\* never sends on a sub-queue that Close() has closed, so the process never
\* ends in the panic of a send on a closed channel.
C22_PushNeverSendsOnClosed == panicked # "send on closed channel"

\* a sub-queue holds a job
HoldsJob == \E ch \in Chans : q[ch] # <<>>

\* a push has sent its job and not yet added it to size
PushBeforeSize == \E p \in Pushers : pc[p] = "push_size"

\* C23 as stated: in every state, a push or pop part-way through or not,
\* Size() == 0 means that no sub-queue holds a job.
C23_SizeZeroMeansEmpty == Size = 0 => ~HoldsJob

\* C23: on a queue that Close() was not called on, Size() == 0 means that no
\* sub-queue holds a job whenever no push stands between its send and its
\* atomic.AddInt64(&q.size, 1).
C23_SizeZeroAtRestMeansEmpty ==
    (q.closed = 0 /\ Size = 0 /\ ~PushBeforeSize) => ~HoldsJob

\* a job was pushed and popped again, and Size() is back at 0
C23_Witness ==
    /\ q.closed = 0
    /\ Size = 0
    /\ ~PushBeforeSize
    /\ q.totalQueued >= 1
    /\ q.totalDequeued >= 1

\* no PushWithPriority call is under way
NoPushInProgress == \A p \in Pushers : pc[p] \notin PushPcs

\* C24: whenever no push is in progress the three per-priority counts add up
\* to totalQueued, and each count is the number of jobs its sub-queue has
\* accepted, a fallen-back job counting for the sub-queue that stored it.
\* (Stated where nothing is popped, so that the jobs a sub-queue has accepted
\* are the jobs it holds; the sum is the int64 sum.)
C24_CountsMatchAccepted ==
    NoPushInProgress =>
       /\ AddInt64(AddInt64(q.highCount, q.normalCount), q.lowCount) = q.totalQueued
       /\ \A ch \in Chans : q[CountOf(ch)] = Len(q[ch])

\* a High job that fell back to Normal is counted in normalCount
C24_Witness ==
    /\ NoPushInProgress
    /\ q.highCount = 1
    /\ q.normalCount = 1
    /\ \E i \in 1..Len(q.normalPriority) :
          q.normalPriority[i].Priority = PriorityHigh

\* the sum of the per-priority counts is totalQueued between pushes, pops
\* and Close() running as well
CountsAddUp ==
    NoPushInProgress =>
       AddInt64(AddInt64(q.highCount, q.normalCount), q.lowCount) = q.totalQueued

\* C25: the size gauge never goes negative, whatever the interleaving of
\* PushWithPriority, Pop, PopBlocking, PopBatch and Close.
C25_SizeNeverNegative == Size >= 0

\* C26: a second Close(), made when two stop triggers both fire, completes
\* without fault: the process never ends in the panic of closing a closed
\* channel.
C26_SecondCloseNoFault == panicked # "close of closed channel"

\* worker w receives a job from sub-queue ch in this step
Receives(w, ch) ==
    /\ pc[w] # "pop_size"
    /\ pc'[w] = "pop_size"
    /\ loc'[w].branch = ch
    /\ loc'[w].item # ZeroItem

\* C27: each sub-queue is first in, first out.  With one producer the jobs
\* are accepted in the order of their QueuedAt, so: whenever Pop, PopBlocking
\* or PopBatch takes a job out of a sub-queue, every job that sub-queue still
\* holds was accepted after it.
C27_SubQueueFIFO ==
    [][\A w \in Workers, ch \in Chans :
          Receives(w, ch) =>
             \A i \in 1..Len(q'[ch]) :
                q'[ch][i].QueuedAt > loc'[w].item.QueuedAt]_vars

\* one PopBatch, with no other call running, has returned the two jobs pushed
\* so far, both stored in Normal by the counts, and the one accepted first
\* came out first
C27_Witness ==
    \E w \in Workers :
       /\ pc[w] = "idle"
       /\ q.totalQueued = 2
       /\ q.normalCount = 2
       /\ Len(loc[w].items) = 2
       /\ loc[w].items[1].QueuedAt < loc[w].items[2].QueuedAt

\* C28: Record is safe under concurrency: what the recorder holds is exactly
\* the metrics the Record calls appended, one for each call, in the order
\* they were appended and unaltered; a GetMetrics that comes after k Record
\* calls returns these k metrics.
C28_RecordedExactly ==
    /\ Elems(recorder.metrics) = recordLog
    /\ \A c \in Callers :
          bench[c].pc = "get_unlock" => Elems(bench[c].metrics) = recordLog

\* both callers have recorded, and a GetMetrics returns the two metrics
C28_Witness ==
    /\ Len(recordLog) >= 2
    /\ \E i, j \in 1..Len(recordLog) :
          recordLog[i].PagesCount # recordLog[j].PagesCount
    /\ \E c \in Callers :
          bench[c].pc = "get_unlock" /\ bench[c].metrics.len = Len(recordLog)

\* caller c's Record appends in this step
Appends(c) == bench[c].pc = "rec_append" /\ bench'[c].pc = "rec_unlock"

\* caller c's GetMetrics makes its result in this step
Copies(c) == bench[c].pc = "get_copy" /\ bench'[c].pc = "get_unlock"

\* caller c keeps the slice it got and does not write into it in this step
Keeps(c) ==
    bench'[c].metrics = bench[c].metrics /\ bench'[c].mods = bench[c].mods

\* C29: GetMetrics returns a copy.  A slice it returned changes only when
\* its holder writes into it, whatever Record calls follow; what the
\* recorder holds changes only when a Record appends, whatever callers write
\* into their slices; and every GetMetrics returns what was recorded.
C29_ReturnsCopy ==
    [][/\ (\A c \in Callers : ~Appends(c)) =>
             Elems(recorder.metrics)' = Elems(recorder.metrics)
       /\ \A c \in Callers :
             Keeps(c) => Elems(bench[c].metrics)' = Elems(bench[c].metrics)
       /\ \A c \in Callers :
             Copies(c) => Elems(bench[c].metrics)' = recordLog']_vars

\* one caller has written into the slice it got, a Record came after that
\* slice was made, and the other caller's GetMetrics returns all that was
\* recorded, as recorded
C29_Witness ==
    \E c, d \in Callers :
       /\ c # d
       /\ bench[c].mods >= 1
       /\ \E i \in 1..bench[c].metrics.len : Elems(bench[c].metrics)[i] = Scribble
       /\ Len(recordLog) > bench[c].metrics.len
       /\ bench[d].pc = "get_unlock"
       /\ Elems(bench[d].metrics) = recordLog

\* the hrefs that differ from h in their fragment at most
SameButFragment(h) == {g \in Hrefs : StripFragment(g) = StripFragment(h)}

\* C30: ToAbsoluteURL discards fragments: the URL it returns has no
\* fragment, and every href that differs from the given one only in its
\* fragment resolves against the same base to the same result.
C30_DiscardsFragments ==
    utilPc = "done" =>
       /\ absURL.Fragment = <<>>
       /\ \A g \in SameButFragment(href) : ToAbsoluteURL(base, g) = absURL

====
